---- MODULE Spec2Model ----
(***************************************************************************)
(* A model of kfactory's interactive LayoutWidget                          *)
(* (src/src/kfactory/widgets/interactive.py).                              *)
(*                                                                         *)
(* The widget owns one viewer session (klayout's lay.LayoutView), one      *)
(* displayed image and, optionally, a layer selector made of buttons.      *)
(* Every handler of the widget is one action; it runs to completion, as    *)
(* the notebook dispatches one event at a time.                            *)
(*                                                                         *)
(* The viewer session is klayout's, not this repository's.  It is modelled *)
(* by what the widget's calls rely on:                                     *)
(*   - the session renders into a canvas (drawn); a change of the session  *)
(*     is drawn only when timer() runs the deferred work, and              *)
(*     get_screenshot_pixels() returns the canvas;                         *)
(*   - the layer-property table is a tree, held in pre-order; the          *)
(*     iterator's next() is the pre-order successor (it descends into      *)
(*     children), down_first_child() moves to the first child,             *)
(*     num_siblings() counts the entries of the current level;             *)
(*   - Layout.cell(name) yields no cell (None) for an unknown name, and    *)
(*     assigning None to the cell view's cell invalidates the cell view;   *)
(*   - two layer properties are equal when their attributes are equal.     *)
(***************************************************************************)
EXTENDS Integers, Sequences, FiniteSets, TLC

VARIABLES
    pc,                  \* "new" before __init__, "ready" after, "failed" if it raised
    cell,                \* __init__ argument: the cell to show
    layer_properties,    \* __init__ argument: path of a layer-properties file, or None
    hide_unused_layers,  \* __init__ argument, stored in self.hide_unused_layers
    with_layer_selector, \* __init__ argument
    layout_view,         \* self.layout_view: the viewer session
    image,               \* self.image.value: the displayed frame
    selector,            \* the layer buttons of the selector, in creation order
    built,               \* the selector was built from the session's table and cell
    flags,               \* the key and button flags of the last event sent to the session
    err,                 \* the exception the last operation ended with, or "none"
    sent,                \* the modifier/button flags of the last event sent to the session
    lyp_loads,           \* number of load_layer_props calls made so far
    past_end,            \* the last selector construction read the iterator at its end
    refreshes,           \* number of consecutive refresh() calls just made
    seq,                 \* per button: toggles since the selector/table last changed
    calls                \* number of operations called on the widget so far

vars == << pc, cell, layer_properties, hide_unused_layers, with_layer_selector,
           layout_view, image, selector, built, flags, err, sent, lyp_loads, past_end,
           refreshes, seq, calls >>

(***************************************************************************)
(* Bounds of the model.                                                    *)
(***************************************************************************)
MaxZoom == 1
MaxCalls == 3

None == "None"
NoCell == "<invalid>"

(***************************************************************************)
(* The file system and the layouts the widget is run against.              *)
(***************************************************************************)
\* Path.exists()
PathExists(p) == p \in {"dir.lyp", "flat.lyp", "tree.lyp", "tail.lyp"}

\* Path.is_file()
PathIsFile(p) == p \in {"flat.lyp", "tree.lyp", "tail.lyp"}

Paths == {None, "missing.lyp", "dir.lyp", "flat.lyp", "tree.lyp", "tail.lyp"}

Entry(src, name, visible, parent) ==
    [src |-> src, name |-> name, visible |-> visible, parent |-> parent]

\* The content of a layer-properties file: the entries in pre-order, each with
\* the index of its parent (0 at the top level).  A group has source 0.
LypFile(p) ==
    CASE p = "flat.lyp" -> << Entry(1, "M1", TRUE, 0), Entry(2, "", FALSE, 0) >>
      [] p = "tree.lyp" -> << Entry(0, "grp", TRUE, 0), Entry(1, "M1", TRUE, 1),
                              Entry(2, "", TRUE, 1), Entry(3, "M3", FALSE, 0) >>
      [] p = "tail.lyp" -> << Entry(2, "M2", TRUE, 0), Entry(3, "", TRUE, 0),
                              Entry(0, "grp", TRUE, 0), Entry(1, "", TRUE, 3) >>
      [] OTHER -> << >>

\* the cells of a layout
Cells(layout) == IF layout = "klib" THEN {"top", "sub"} ELSE {"top"}

\* the layers of a layout
LayoutLayers(layout) == IF layout = "klib" THEN {1, 2, 3} ELSE {2, 3}

\* Cell.bbox_per_layer(layer).empty() is false exactly for these layers
Bbox(layout, c) ==
    CASE layout = "klib" /\ c = "top" -> {1, 2}
      [] layout = "klib" /\ c = "sub" -> {2}
      [] layout = "b.gds" /\ c = "top" -> {2, 3}
      [] OTHER -> {}

CellNames == {"top", "sub", "ghost"}
ModeNames == {"select", "move"}

(***************************************************************************)
(* The viewer session.                                                     *)
(***************************************************************************)
\* what the session shows: the frame a complete drawing of it gives
Render(lv) ==
    [layout |-> lv.layout, cell |-> lv.cell, zoom |-> lv.zoom,
     layers |-> [i \in DOMAIN lv.table |->
                   << lv.table[i].src, lv.table[i].visible >>]]

Blank == [layout |-> None, cell |-> NoCell, zoom |-> 0, layers |-> << >>]

\* lay.LayoutView() followed by show_layout(cell.klib, False)
show_layout(klib) ==
    [layout |-> klib, cell |-> NoCell, table |-> << >>, zoom |-> 0,
     pointer |-> "outside", mode |-> "select", drawn |-> Blank]

\* LayoutView.load_layer_props: the file's entries replace the table
load_layer_props(lv, p) == [lv EXCEPT !.table = LypFile(p)]

\* LayoutView.timer(): runs the deferred work, which completes the drawing
timer(lv) == [lv EXCEPT !.drawn = Render(lv)]

\* LayoutView.get_screenshot_pixels().to_png_data(): the canvas as drawn
get_screenshot_pixels(lv) == lv.drawn

\* the sources of the table's entries
Sources(table) == {table[i].src : i \in DOMAIN table}

RECURSIVE Ascending(_)
Ascending(S) ==
    IF S = {} THEN << >>
    ELSE LET m == CHOOSE x \in S : \A y \in S : x <= y
         IN << m >> \o Ascending(S \ {m})

\* LayoutView.add_missing_layers(): an entry for every layer of the layout the
\* table lacks, appended at the top level
add_missing_layers(lv) ==
    IF lv.cell = NoCell THEN lv
    ELSE LET missing == Ascending(LayoutLayers(lv.layout) \ Sources(lv.table))
         IN [lv EXCEPT !.table = lv.table \o
                [i \in DOMAIN missing |-> Entry(missing[i], "", TRUE, 0)]]

\* Layout.cell(name): the cell, or None when the layout has no cell of that name
LayoutCell(lv, name) == IF name \in Cells(lv.layout) THEN name ELSE None

\* LayoutWidget.show_cell
show_cell(lv, c) ==
    [add_missing_layers([lv EXCEPT !.cell = IF c = None THEN NoCell ELSE c])
        EXCEPT !.zoom = 0]


\* refresh, after its first timer(): the screenshot is displayed, then timer()
\* runs once more
refreshed(lv1) ==
    [layout_view |-> timer(lv1), image |-> get_screenshot_pixels(lv1)]

\* refresh without its first timer(): the canvas is displayed as it was drawn
\* before the call
refresh_undrawn(lv) == refreshed(lv)

\* LayoutWidget.refresh: the session after it and the frame it leaves displayed.
\* (Once __init__ has registered refresh as on_image_updated_event, the first
\* timer() may re-enter refresh; the nested call displays the same canvas the
\* enclosing call then displays again.)
refresh(lv) == refreshed(timer(lv))

(***************************************************************************)
(* The layer selector.                                                     *)
(***************************************************************************)
\* LayerPropertiesIterator.at_end()
at_end(lv, it) == it > Len(lv.table)

\* LayerPropertiesIterator.next(): the pre-order successor
next(lv, it) == IF at_end(lv, it) THEN it ELSE it + 1

\* LayerProperties.has_children()
has_children(lv, it) == \E j \in DOMAIN lv.table : lv.table[j].parent = it

\* LayerPropertiesIterator.down_first_child(), on an entry with children
down_first_child(lv, it) == it + 1

\* LayerPropertiesIterator.num_siblings(): the entries of the current level
num_siblings(lv, it) ==
    Cardinality({j \in DOMAIN lv.table : lv.table[j].parent = lv.table[it].parent})

\* the attributes of a layer-properties entry (what == compares)
Props(e) == [src |-> e.src, name |-> e.name, visible |-> e.visible]

\* f"{props.source_layer}/{props.source_datatype}"
SourceLabel(p) == ToString(p.src) \o "/0"

\* the Button made for an entry: button_color is default_color (filled) or
\* "transparent"; under is the source of the group it is nested in, -1 at the top
Button(p, name, under, group) ==
    [layer_props |-> p, name |-> name, filled |-> p.visible,
     under |-> under, group |-> group]

\* what a part of the selector construction yields: the buttons made, where the
\* shared iterator is left, the exception raised ("none" if none), and whether
\* current() was read with the iterator at its end
Built(boxes, it, raised, past) ==
    [boxes |-> boxes, it |-> it, raised |-> raised, past |-> past]

\* children.append / all_boxes.append of one result after another
Appended(r, rest) ==
    Built(r.boxes \o rest.boxes, rest.it, rest.raised, r.past \/ rest.past)

RECURSIVE build_layer_toggle(_, _, _)
RECURSIVE build_children(_, _, _, _)

\* one round of the loop over the children, after its build_layer_toggle call
child_appended(lv, r, n, under) ==
    IF r.raised # "none" THEN r
    ELSE Appended(r, build_children(lv, r.it, n - 1, under))

\* the loop over the children of a group:
\* for _i in range(n_children): prop_iter = prop_iter.next(); build_layer_toggle
build_children(lv, it, n, under) ==
    IF n = 0 THEN Built(<< >>, it, "none", FALSE)
    ELSE child_appended(lv, build_layer_toggle(lv, next(lv, it), under), n, under)

\* build_layer_toggle on a group, after the loop over its children
group_toggle(props, under, r) ==
    IF r.raised # "none" \/ r.boxes = << >>
    THEN Built(<< >>, r.it, r.raised, r.past)
    ELSE Built(<< Button(props, props.name, under, TRUE) >> \o r.boxes,
               r.it, "none", r.past)

\* build_layer_toggle on an entry without children
leaf_toggle(lv, props, it, under, past) ==
    IF lv.cell = NoCell THEN Built(<< >>, it, "AttributeError", past)
    ELSE IF props.src \notin Bbox(lv.layout, lv.cell)
         THEN Built(<< >>, it, "none", past)
         ELSE Built(<< Button(props,
                              IF props.name # "" THEN props.name
                              ELSE SourceLabel(props),
                              under, FALSE) >>,
                    it, "none", past)

\* LayoutWidget.build_layer_toggle: the buttons made for the entry the iterator
\* is at (none when it returns None).  With the iterator at its end current()
\* has no entry to give: the properties read are empty ones, of no layer.
build_layer_toggle(lv, it, under) ==
    IF at_end(lv, it)
    THEN leaf_toggle(lv, [src |-> -1, name |-> "", visible |-> TRUE], it, under, TRUE)
    ELSE IF has_children(lv, it)
         THEN group_toggle(Props(lv.table[it]), under,
                  build_children(lv, down_first_child(lv, it),
                                 num_siblings(lv, down_first_child(lv, it)),
                                 lv.table[it].src))
         ELSE leaf_toggle(lv, Props(lv.table[it]), it, under, FALSE)

RECURSIVE all_boxes(_, _)

\* one round of the loop of all_boxes, after its build_layer_toggle call
box_appended(lv, r) ==
    IF r.raised # "none" THEN r
    ELSE Appended(r, all_boxes(lv, next(lv, r.it)))

\* the loop of build_selector and of on_select_cell:
\* while not prop_iter.at_end(): build_layer_toggle(prop_iter); prop_iter.next()
all_boxes(lv, it) ==
    IF at_end(lv, it) THEN Built(<< >>, it, "none", FALSE)
    ELSE box_appended(lv, build_layer_toggle(lv, it, -1))

\* LayoutWidget.build_selector: the layer buttons of the "Layers" tab
build_selector(lv) == all_boxes(lv, 1)

(***************************************************************************)
(* Events.                                                                 *)
(***************************************************************************)
MaxButtonsMask == 15

\* lay.ButtonState
ShiftKey == 1
ControlKey == 2
AltKey == 4
LeftButton == 8
MidButton == 16
RightButton == 32

RECURSIVE BitAnd(_, _)
\* Python's a & b on non-negative integers
BitAnd(a, b) ==
    IF a = 0 \/ b = 0 THEN 0
    ELSE (IF a % 2 = 1 /\ b % 2 = 1 THEN 1 ELSE 0) + 2 * BitAnd(a \div 2, b \div 2)

RECURSIVE BitOr(_, _)
\* Python's a | b on non-negative integers
BitOr(a, b) ==
    IF a = 0 THEN b
    ELSE IF b = 0 THEN a
    ELSE (IF a % 2 = 1 \/ b % 2 = 1 THEN 1 ELSE 0) + 2 * BitOr(a \div 2, b \div 2)

\* if flag: buttons |= bit
OrIf(flag, buttons, bit) == IF flag THEN BitOr(buttons, bit) ELSE buttons

\* _get_modifier_buttons with the right and the middle button exchanged
_get_modifier_buttons_swapped(event) ==
    OrIf(BitAnd(event.buttons, 4) # 0,
      OrIf(BitAnd(event.buttons, 2) # 0,
        OrIf(BitAnd(event.buttons, 1) # 0,
          OrIf(event.ctrlKey,
            OrIf(event.altKey,
              OrIf(event.shiftKey, 0, ShiftKey),
              AltKey),
            ControlKey),
          LeftButton),
        MidButton),
      RightButton)

\* LayoutWidget._get_modifier_buttons
_get_modifier_buttons(event) ==
    OrIf(BitAnd(event.buttons, 4) # 0,
      OrIf(BitAnd(event.buttons, 2) # 0,
        OrIf(BitAnd(event.buttons, 1) # 0,
          OrIf(event.ctrlKey,
            OrIf(event.altKey,
              OrIf(event.shiftKey, 0, ShiftKey),
              AltKey),
            ControlKey),
          LeftButton),
        RightButton),
      MidButton)

DomEvent(kind, shift, alt, ctrl, buttons, deltaY) ==
    [event |-> kind, shiftKey |-> shift, altKey |-> alt, ctrlKey |-> ctrl,
     buttons |-> buttons, deltaY |-> deltaY]

MouseKinds == {"mousedown", "mouseup", "mousemove", "contextmenu"}

\* the events the widget is driven with
WheelEvents == {DomEvent("wheel", FALSE, FALSE, FALSE, 0, d) : d \in {-1, 1}}
MouseEvents == {DomEvent(k, FALSE, FALSE, FALSE, 1, 0) : k \in MouseKinds}

\* every combination of modifier keys and pressed buttons
AnyWheelEvents ==
    {DomEvent("wheel", s, a, c, b, 1) :
        s \in BOOLEAN, a \in BOOLEAN, c \in BOOLEAN, b \in 0..MaxButtonsMask}
AnyMouseEvents ==
    {DomEvent(k, s, a, c, b, 0) :
        k \in {"mousedown", "mouseup", "mousemove"},
        s \in BOOLEAN, a \in BOOLEAN, c \in BOOLEAN, b \in 0..MaxButtonsMask}

\* the flags of a DOM event that _get_modifier_buttons reads
Flags(event) ==
    [shiftKey |-> event.shiftKey, altKey |-> event.altKey,
     ctrlKey |-> event.ctrlKey, buttons |-> event.buttons]

\* LayoutView.send_wheel_event(delta, ...): a positive delta zooms in
send_wheel_event(lv, delta) ==
    IF delta > 0 /\ lv.zoom < MaxZoom THEN [lv EXCEPT !.zoom = lv.zoom + 1]
    ELSE IF delta < 0 /\ lv.zoom > 0 THEN [lv EXCEPT !.zoom = lv.zoom - 1]
    ELSE lv

\* LayoutView.send_mouse_press_event / send_mouse_release_event /
\* send_mouse_move_event, chosen by event["event"]
send_mouse_event(lv, kind) ==
    CASE kind = "mousedown" -> [lv EXCEPT !.pointer = "pressed"]
      [] kind = "mouseup" -> [lv EXCEPT !.pointer = "inside"]
      [] OTHER -> lv

\* LayoutWidget.on_scroll
on_scroll(lv, event) ==
    refresh(send_wheel_event(timer(lv), -event.deltaY))

\* on_mouse, after its refresh(): timer() runs once more
mouse_refreshed(r) == [r EXCEPT !.layout_view = timer(r.layout_view)]

\* LayoutWidget.on_mouse
on_mouse(lv, event) ==
    mouse_refreshed(refresh(send_mouse_event(timer(lv), event.event)))

\* LayoutView.send_enter_event / send_leave_event
send_enter_event(lv) == [lv EXCEPT !.pointer = "inside"]
send_leave_event(lv) == [lv EXCEPT !.pointer = "outside"]

\* LayoutWidget.on_mouse_enter
on_mouse_enter(lv) == refresh(send_enter_event(timer(lv)))

\* LayoutWidget.on_mouse_leave
on_mouse_leave(lv) == refresh(send_leave_event(timer(lv)))

\* the switch_mode observer registered in build_modes
switch_mode(lv, mode) == [lv EXCEPT !.mode = mode]

\* the default entries of a layout's layers
DefaultTable(layers) == [i \in DOMAIN layers |-> Entry(layers[i], "", TRUE, 0)]

\* LayoutView.load_layout(filepath): the file's layout replaces the one shown,
\* with its top cell and a default entry for each of its layers
view_load_layout(lv, filepath) ==
    [lv EXCEPT !.layout = filepath, !.cell = "top", !.zoom = 0,
               !.table = DefaultTable(Ascending(LayoutLayers(filepath)))]

\* LayoutWidget.load_layout
load_layout(lv, filepath, lyp) ==
    IF lyp # None THEN load_layer_props(view_load_layout(lv, filepath), lyp)
    ELSE view_load_layout(lv, filepath)

(***************************************************************************)
(* Layer buttons.                                                          *)
(***************************************************************************)
\* the entries of each_layer() equal to button.layer_props
Hits(lv, button) ==
    {i \in DOMAIN lv.table : Props(lv.table[i]) = button.layer_props}

\* the loop of button_toggle: the first entry of each_layer() equal to
\* button.layer_props, 0 when there is none
matching(lv, button) ==
    IF Hits(lv, button) = {} THEN 0
    ELSE CHOOSE i \in Hits(lv, button) : \A j \in Hits(lv, button) : i <= j

\* props.visible = not props.visible; props.name = button.name
toggled(lv, i, button) ==
    IF i = 0 THEN lv
    ELSE [lv EXCEPT !.table[i].visible = ~lv.table[i].visible,
                    !.table[i].name = button.name]

\* the button after the click: its colour is switched, and its layer_props are
\* those of the entry changed, if there is one
clicked(lv1, i, button) ==
    [button EXCEPT !.filled = ~button.filled,
                   !.layer_props = IF i = 0 THEN button.layer_props
                                   ELSE Props(lv1.table[i])]

\* button_toggle, from the loop on: the session and the frame after refresh()
toggle_refreshed(r, button) ==
    [layout_view |-> r.layout_view, image |-> r.image, button |-> button]

\* LayoutWidget.button_toggle: the session, the frame and the clicked button after
button_toggle(lv, button) ==
    toggle_refreshed(
        refresh(toggled(lv, matching(lv, button), button)),
        clicked(toggled(lv, matching(lv, button), button),
                matching(lv, button), button))

\* what on_select_cell and __init__ leave behind
Outcome(lv, img, sel, e, past) ==
    [layout_view |-> lv, image |-> img, selector |-> sel, err |-> e, past |-> past]

\* on_select_cell, from tabs = self.widget.right_sidebar on
selected(r, b) == Outcome(r.layout_view, r.image, b.boxes, "none", b.past)

\* on_select_cell, after show_cell.  raises: whether reading current() at the end
\* of the iterator raises (it is not defined what it yields there).
cell_shown(lv1, img, sel, has_sel, raises, b) ==
    IF b.raised # "none" THEN Outcome(lv1, img, sel, b.raised, b.past)
    ELSE IF b.past /\ raises THEN Outcome(lv1, img, sel, "RuntimeError", b.past)
    ELSE IF ~has_sel THEN Outcome(lv1, img, sel, "AttributeError", b.past)
    ELSE selected(refresh(lv1), b)

\* the session after the show_cell call of on_select_cell
select_shown(lv, name) == show_cell(lv, LayoutCell(lv, name))

\* LayoutWidget.on_select_cell
on_select_cell(lv, img, sel, has_sel, name, raises) ==
    cell_shown(select_shown(lv, name), img, sel, has_sel, raises,
               all_boxes(select_shown(lv, name), 1))

\* __init__, from build_selector on
init_built(r, b, raises) ==
    IF b.raised # "none" THEN Outcome(r.layout_view, r.image, << >>, b.raised, b.past)
    ELSE IF b.past /\ raises
         THEN Outcome(r.layout_view, r.image, << >>, "RuntimeError", b.past)
         ELSE Outcome(r.layout_view, r.image, b.boxes, "none", b.past)

\* __init__, from self.refresh() on
init_refreshed(r, has_sel, raises) ==
    init_built(r, IF has_sel THEN build_selector(r.layout_view)
                  ELSE Built(<< >>, 1, "none", FALSE), raises)

\* the test of __init__ without is_file()
loads_props_exists(path) == path # None /\ PathExists(path)

\* whether __init__ calls load_layer_props
loads_props(path) == path # None /\ PathExists(path) /\ PathIsFile(path)

\* __init__, up to show_cell
init_shown(c, path) ==
    show_cell(IF loads_props(path) THEN load_layer_props(show_layout("klib"), path)
              ELSE show_layout("klib"), c)

\* LayoutWidget.__init__
__init__(c, path, has_sel, raises) ==
    init_refreshed(refresh(init_shown(c, path)), has_sel, raises)

(***************************************************************************)
(* The state machine.                                                      *)
(***************************************************************************)
\* the entry of the session's table for the layer a button stands for (the one
\* of the same source), 0 when the table has none
EntryOf(lv, button) ==
    IF \E i \in DOMAIN lv.table : lv.table[i].src = button.layer_props.src
    THEN CHOOSE i \in DOMAIN lv.table : lv.table[i].src = button.layer_props.src
    ELSE 0

\* bookkeeping for a run of button clicks: no click yet, and the visibility of
\* the button's layer as the run starts
Started(lv, i) == [n |-> 0, v0 |-> IF i = 0 THEN FALSE ELSE lv.table[i].visible]

StartSeq(lv, sel) == [k \in DOMAIN sel |-> Started(lv, EntryOf(lv, sel[k]))]

Init ==
    /\ pc = "new"
    /\ cell \in {"top", "sub"}
    /\ layer_properties \in Paths
    /\ hide_unused_layers \in BOOLEAN
    /\ with_layer_selector \in BOOLEAN
    /\ layout_view = show_layout(None)
    /\ image = Blank
    /\ selector = << >>
    /\ built = FALSE
    /\ flags = Flags(DomEvent("none", FALSE, FALSE, FALSE, 0, 0))
    /\ err = "none"
    /\ sent = 0
    /\ lyp_loads = 0
    /\ past_end = FALSE
    /\ refreshes = 0
    /\ seq = << >>
    /\ calls = 0

\* the widget's state after an operation that ends as r says
Ends(r, raises) ==
    /\ (raises => r.past)
    /\ layout_view' = r.layout_view
    /\ image' = r.image
    /\ selector' = r.selector
    /\ err' = r.err
    /\ past_end' = r.past
    /\ built' = (with_layer_selector /\ r.err = "none")
    /\ seq' = StartSeq(r.layout_view, r.selector)

Construct ==
    /\ pc = "new"
    /\ \E raises \in BOOLEAN :
         /\ Ends(__init__(cell, layer_properties, with_layer_selector, raises), raises)
         /\ pc' = IF err' = "none" THEN "ready" ELSE "failed"
    /\ lyp_loads' = IF loads_props(layer_properties) THEN 1 ELSE 0
    /\ refreshes' = 0
    /\ UNCHANGED << cell, layer_properties, hide_unused_layers,
                    with_layer_selector, sent, flags, calls >>

Called ==
    /\ pc = "ready"
    /\ calls < MaxCalls
    /\ calls' = calls + 1
    /\ UNCHANGED << pc, cell, layer_properties, hide_unused_layers,
                    with_layer_selector >>

\* the session and the frame an event handler leaves
Shows(r) ==
    /\ layout_view' = r.layout_view
    /\ image' = r.image

Refresh ==
    /\ Called
    /\ Shows(refresh(layout_view))
    /\ err' = "none"
    /\ refreshes' = IF refreshes < 2 THEN refreshes + 1 ELSE 2
    /\ UNCHANGED << selector, built, flags, sent, lyp_loads, past_end, seq >>

OnScroll(events) ==
    /\ Called
    /\ \E event \in events :
         /\ Shows(on_scroll(layout_view, event))
         /\ sent' = _get_modifier_buttons(event)
         /\ flags' = Flags(event)
    /\ err' = "none"
    /\ refreshes' = 0
    /\ UNCHANGED << selector, built, lyp_loads, past_end, seq >>

OnMouse(events) ==
    /\ Called
    /\ \E event \in events :
         /\ Shows(on_mouse(layout_view, event))
         /\ IF event.event \in {"mousedown", "mouseup", "mousemove"}
            THEN sent' = _get_modifier_buttons(event) /\ flags' = Flags(event)
            ELSE UNCHANGED << sent, flags >>
    /\ err' = "none"
    /\ refreshes' = 0
    /\ UNCHANGED << selector, built, lyp_loads, past_end, seq >>

OnMouseEnter ==
    /\ Called
    /\ Shows(on_mouse_enter(layout_view))
    /\ err' = "none"
    /\ refreshes' = 0
    /\ UNCHANGED << selector, built, flags, sent, lyp_loads, past_end, seq >>

OnMouseLeave ==
    /\ Called
    /\ Shows(on_mouse_leave(layout_view))
    /\ err' = "none"
    /\ refreshes' = 0
    /\ UNCHANGED << selector, built, flags, sent, lyp_loads, past_end, seq >>

SwitchMode ==
    /\ Called
    /\ \E mode \in ModeNames \ {layout_view.mode} :
         layout_view' = switch_mode(layout_view, mode)
    /\ err' = "none"
    /\ refreshes' = 0
    /\ UNCHANGED << image, selector, built, flags, sent, lyp_loads, past_end, seq >>

\* the widget's state after a click on button k that ends as r says
Clicks(k, r) ==
    /\ Shows(r)
    /\ selector' = [selector EXCEPT ![k] = r.button]
    /\ seq' = [seq EXCEPT ![k].n = seq[k].n + 1]

ButtonToggle(k) ==
    /\ Called
    /\ k \in DOMAIN selector
    /\ Clicks(k, button_toggle(layout_view, selector[k]))
    /\ err' = "none"
    /\ refreshes' = 0
    /\ UNCHANGED << built, flags, sent, lyp_loads, past_end >>

OnSelectCell(name) ==
    /\ Called
    /\ \E raises \in BOOLEAN :
         Ends(on_select_cell(layout_view, image, selector, with_layer_selector,
                             name, raises), raises)
    /\ refreshes' = 0
    /\ UNCHANGED << sent, flags, lyp_loads >>

LoadLayout(filepath, lyp) ==
    /\ Called
    /\ layout_view' = load_layout(layout_view, filepath, lyp)
    /\ lyp_loads' = IF lyp # None THEN lyp_loads + 1 ELSE lyp_loads
    /\ seq' = StartSeq(layout_view', selector)
    /\ built' = FALSE
    /\ err' = "none"
    /\ refreshes' = 0
    /\ UNCHANGED << image, selector, sent, flags, past_end >>

Next ==
    \/ Construct
    \/ Refresh
    \/ OnScroll(WheelEvents)
    \/ OnMouse(MouseEvents)
    \/ OnMouseEnter
    \/ OnMouseLeave
    \/ SwitchMode
    \/ \E k \in 1..4 : ButtonToggle(k)
    \/ \E name \in CellNames : OnSelectCell(name)
    \/ \E lyp \in {None, "tree.lyp"} : LoadLayout("b.gds", lyp)

Spec == Init /\ [][Next]_vars

\* the widget driven with every combination of key and button flags
NextModifiers ==
    \/ Construct
    \/ OnScroll(AnyWheelEvents)
    \/ OnMouse(AnyMouseEvents)

\* one widget, as the decoding does not read the widget's state
InitModifiers ==
    /\ Init
    /\ cell = "top"
    /\ layer_properties = None
    /\ hide_unused_layers
    /\ with_layer_selector

SpecModifiers == InitModifiers /\ [][NextModifiers]_vars

(***************************************************************************)
(* Properties.                                                             *)
(***************************************************************************)
Table == layout_view.table

\* C1: once an operation on the constructed widget has completed, the displayed
\* image is the screenshot of the session's current state.
C1_NoStaleFrame ==
    (pc = "ready" /\ err = "none") => image = Render(layout_view)

\* C2: after an even number of clicks on a layer's button the layer's visibility
\* is what it was before the clicks, after an odd number it is the negation,
\* whatever clicks on other buttons come in between.
C2_ToggleParity ==
    pc = "ready" =>
        \A k \in DOMAIN selector :
            EntryOf(layout_view, selector[k]) # 0 =>
                Table[EntryOf(layout_view, selector[k])].visible =
                    (IF seq[k].n % 2 = 0 THEN seq[k].v0 ELSE ~seq[k].v0)

Bit(n, b) == (n \div b) % 2 = 1

\* the flags value the decoding is to give
ExpectedButtons(f) ==
    (IF f.shiftKey THEN ShiftKey ELSE 0) + (IF f.altKey THEN AltKey ELSE 0)
    + (IF f.ctrlKey THEN ControlKey ELSE 0)
    + (IF Bit(f.buttons, 1) THEN LeftButton ELSE 0)
    + (IF Bit(f.buttons, 2) THEN RightButton ELSE 0)
    + (IF Bit(f.buttons, 4) THEN MidButton ELSE 0)

\* C3: the flags sent to the session are exactly the OR of ShiftKey, AltKey,
\* ControlKey for the keys held and LeftButton, RightButton, MidButton for bits
\* 1, 2, 4 of the event's buttons; higher bits of buttons add nothing.
C3_ModifierBits == sent = ExpectedButtons(flags)

C3_Witness ==
    /\ calls > 0
    /\ flags = [shiftKey |-> TRUE, altKey |-> FALSE, ctrlKey |-> FALSE, buttons |-> 11]
    /\ sent = ShiftKey + LeftButton + RightButton

\* C4: on_select_cell with a name the layout has no cell of ends in an error and
\* leaves the active cell, the selector and the displayed frame as they were.
C4_MissingCellRejected ==
    [][\A name \in CellNames :
          (OnSelectCell(name) /\ name \notin Cells(layout_view.layout)) =>
              /\ err' # "none"
              /\ layout_view'.cell = layout_view.cell
              /\ selector' = selector
              /\ image' = image]_vars

\* C5: constructed with a layer-properties path that is no regular file, the
\* widget raises nothing, never calls load_layer_props (the table is the default
\* one), shows the cell and displays its first frame.
C5_MissingPropsIgnored ==
    [][(Construct /\ layer_properties # None /\ ~PathIsFile(layer_properties)) =>
          /\ pc' = "ready" /\ err' = "none"
          /\ lyp_loads' = 0
          /\ layout_view'.table = DefaultTable(Ascending(LayoutLayers("klib")))
          /\ layout_view'.cell = cell
          /\ image' = Render(layout_view')]_vars

C5_Witness ==
    /\ pc = "ready" /\ calls = 0
    /\ layer_properties = "dir.lyp"
    /\ lyp_loads = 0
    /\ layout_view.cell = cell
    /\ image = Render(layout_view)

InSelector(src) == \E k \in DOMAIN selector : selector[k].layer_props.src = src

IsGroup(i) == \E j \in DOMAIN Table : Table[j].parent = i

RECURSIVE Under(_, _)
\* entry j lies below entry i in the table's tree
Under(j, i) ==
    Table[j].parent # 0 /\ (Table[j].parent = i \/ Under(Table[j].parent, i))

\* C7: the selector holds a leaf layer exactly if its bounding box in the active
\* cell is not empty, and a group exactly if it holds one of its descendants.
C7_SelectorMatchesBbox ==
    (pc = "ready" /\ built) =>
        \A i \in DOMAIN Table :
            InSelector(Table[i].src) <=>
                IF IsGroup(i)
                THEN \E j \in DOMAIN Table :
                        Under(j, i) /\ ~IsGroup(j) /\ InSelector(Table[j].src)
                ELSE Table[i].src \in Bbox(layout_view.layout, layout_view.cell)

\* the entry survives the filtering of unused layers
Survives(i) ==
    \E j \in DOMAIN Table :
        /\ j = i \/ Under(j, i)
        /\ ~IsGroup(j)
        /\ Table[j].src \in Bbox(layout_view.layout, layout_view.cell)

ParentSrc(i) == IF Table[i].parent = 0 THEN -1 ELSE Table[Table[i].parent].src

\* C8: the construction of the selector visits every entry exactly once: every
\* surviving entry has exactly one button, nested where the entry is, and the
\* iterator is never read at its end.
C8_EachEntryOnce ==
    (pc = "ready" /\ built) =>
        /\ ~past_end
        /\ \A i \in DOMAIN Table :
              Survives(i) =>
                /\ Cardinality({k \in DOMAIN selector :
                      selector[k].layer_props.src = Table[i].src}) = 1
                /\ \A k \in DOMAIN selector :
                      selector[k].layer_props.src = Table[i].src =>
                          selector[k].under = ParentSrc(i)

\* C9: a click on a layer's button changes nothing of the table but the
\* visibility of that layer.
C9_ToggleFrame ==
    [][\A k \in 1..4 :
          ButtonToggle(k) =>
              /\ DOMAIN layout_view'.table = DOMAIN Table
              /\ \A i \in DOMAIN Table :
                    /\ layout_view'.table[i].name = Table[i].name
                    /\ layout_view'.table[i].src = Table[i].src
                    /\ layout_view'.table[i].parent = Table[i].parent
                    /\ i # matching(layout_view, selector[k]) =>
                          layout_view'.table[i].visible = Table[i].visible]_vars

\* C10: every button of the selector is filled with its colour exactly if the
\* layer it stands for is visible in the session.
C10_ColourMatchesVisibility ==
    pc = "ready" =>
        \A k \in DOMAIN selector :
            EntryOf(layout_view, selector[k]) # 0 =>
                (selector[k].filled <=>
                    Table[EntryOf(layout_view, selector[k])].visible)

====
